---- MODULE Spec2Model ----
(***************************************************************************)
(* A model of the SFCC metadata explorer: the call resolver                *)
(* (OCAPIService.getCallSetup and its connection discovery), the endpoint  *)
(* catalog (apiConfig) and the tree materializer                           *)
(* (MetadataViewProvider.getChildren and its strategies).                  *)
(*                                                                         *)
(* SpecResolver: one OCAPIService instance on which two callers invoke     *)
(* getCallSetup, their awaits interleaving.                                *)
(***************************************************************************)
EXTENDS Integers, Sequences, FiniteSets, TLC

\* The number of getCallSetup invocations started in one behaviour.
MaxCalls == 3

(***************************************************************************)
(* JavaScript values, tagged with what typeof answers.                     *)
(***************************************************************************)
Str(s) == [t |-> "string", v |-> s]

Num(n) == [t |-> "number", v |-> n]

typeof(x) == x.t

\* obj.hasOwnProperty(key), for an object literal held as a record.
hasOwnProperty(obj, key) == key \in DOMAIN obj

(***************************************************************************)
(* A URL or a path template is a sequence of segments: literal text, or a  *)
(* '{id}' placeholder.                                                     *)
(***************************************************************************)
Lit(s) == [kind |-> "lit", s |-> s]

Ph(id) == [kind |-> "ph", s |-> id]

Param(id, type, use) == [id |-> id, type |-> type, use |-> use]

CallConfig(method, params, path) == [method |-> method, params |-> params, path |-> path]

apiConfigUnusedPathParam ==
  [resources |->
    [systemObjectDefinitions |->
      [api |-> "data",
       availableCalls |->
        [get |-> CallConfig("GET",
                   << Param("objectType", "string", "PATH_PARAMETER") >>,
                   << Lit("system_object_definitions/"), Ph("objectType") >>),
         getAll |-> CallConfig("GET",
                   << Param("select", "string", "QUERY_PARAMETER"),
                      Param("count", "number", "PATH_PARAMETER") >>,
                   << Lit("system_object_definitions") >>),
         getAttributes |-> CallConfig("GET",
                   << Param("select", "string", "QUERY_PARAMETER"),
                      Param("objectType", "string", "PATH_PARAMETER") >>,
                   << Lit("system_object_definitions/"), Ph("objectType"),
                      Lit("/attribute_definitions") >>),
         getAttributeGroups |-> CallConfig("GET",
                   << Param("select", "string", "QUERY_PARAMETER"),
                      Param("objectType", "string", "PATH_PARAMETER") >>,
                   << Lit("system_object_definitions/"), Ph("objectType"),
                      Lit("/attribute_groups") >>)]]]]

\* The endpoint catalog: one resource, eight calls.
apiConfig ==
  [resources |->
    [systemObjectDefinitions |->
      [api |-> "data",
       availableCalls |->
        [get |-> CallConfig("GET",
                   << Param("objectType", "string", "PATH_PARAMETER") >>,
                   << Lit("system_object_definitions/"), Ph("objectType") >>),
         getAll |-> CallConfig("GET",
                   << Param("select", "string", "QUERY_PARAMETER"),
                      Param("count", "number", "QUERY_PARAMETER") >>,
                   << Lit("system_object_definitions") >>),
         getAttributes |-> CallConfig("GET",
                   << Param("select", "string", "QUERY_PARAMETER"),
                      Param("objectType", "string", "PATH_PARAMETER") >>,
                   << Lit("system_object_definitions/"), Ph("objectType"),
                      Lit("/attribute_definitions") >>),
         createAttribute |-> CallConfig("PUT",
                   << Param("id", "string", "PATH_PARAMETER"),
                      Param("objectType", "string", "PATH_PARAMETER") >>,
                   << Lit("system_object_definitions/"), Ph("objectType"),
                      Lit("/attribute_definitions/"), Ph("id") >>),
         deleteAttribute |-> CallConfig("DELETE",
                   << Param("id", "string", "PATH_PARAMETER"),
                      Param("objectType", "string", "PATH_PARAMETER") >>,
                   << Lit("system_object_definitions/"), Ph("objectType"),
                      Lit("/attribute_definitions/"), Ph("id") >>),
         createAttributeGroup |-> CallConfig("PUT",
                   << Param("id", "string", "PATH_PARAMETER"),
                      Param("objectType", "string", "PATH_PARAMETER") >>,
                   << Lit("system_object_definitions/"), Ph("objectType"),
                      Lit("/attribute_groups/"), Ph("id") >>),
         getAttributeGroups |-> CallConfig("GET",
                   << Param("select", "string", "QUERY_PARAMETER"),
                      Param("objectType", "string", "PATH_PARAMETER") >>,
                   << Lit("system_object_definitions/"), Ph("objectType"),
                      Lit("/attribute_groups") >>),
         assignAttributeToGroup |-> CallConfig("PUT",
                   << Param("objectType", "string", "PATH_PARAMETER"),
                      Param("groupId", "string", "PATH_PARAMETER"),
                      Param("attributeId", "string", "PATH_PARAMETER") >>,
                   << Lit("system_object_definitions/"), Ph("objectType"),
                      Lit("/attribute_groups/"), Ph("groupId"),
                      Lit("/attribute_definitions/"), Ph("attributeId") >>)]]]]

(***************************************************************************)
(* getCallSetup, up to its first await (lines 55-138).  The answer is the  *)
(* descriptor built so far and whether the function threw.                 *)
(***************************************************************************)
NewSetupResult == [endpoint |-> << >>, setupErrMsg |-> << >>, setupError |-> FALSE]

ErrorSetup(setupResult, lines) ==
  [setupResult EXCEPT !.setupError = TRUE, !.setupErrMsg = @ \o lines]

\* A JavaScript value in a condition: 0 and the empty string are false.
Truthy(x) ==
  CASE x.t = "string" -> x.v # ""
    [] x.t = "number" -> x.v # 0
    [] x.t = "boolean" -> x.v
    [] x.t = "undefined" -> FALSE
    [] x.t = "object" -> x.kind # "null"
    [] OTHER -> TRUE

\* String(x)
ToStr(x) ==
  CASE x.t = "number" -> ToString(x.v)
    [] x.t = "boolean" -> (IF x.v THEN "true" ELSE "false")
    [] OTHER -> x.v

\* encodeURIComponent: letters, digits and - _ . ! ~ * ' ( ) stay as they
\* are, every other character becomes %XX.
encodeURIComponent(s) ==
  CASE s = "a b" -> "a%20b"
    [] s = "a&b" -> "a%26b"
    [] OTHER -> s

\* endpoint.indexOf(segment) > -1
Contains(endpoint, segment) == \E i \in 1..Len(endpoint) : endpoint[i] = segment

\* The text of one violation (the parameter object is concatenated to the
\* message, which prints it as [object Object]).
MissingParamLine == "Missing call parameter: [object Object]"

\* The callback handed to forEach (lines 98-126), for one parameter.
paramCallback(setupResult, param, callData, resourceName, callName) ==
  LET replaceMe == Ph(param.id) IN
  IF /\ hasOwnProperty(callData, param.id)
     /\ Truthy(callData[param.id])
     /\ typeof(callData[param.id]) = param.type
  THEN IF param.use = "PATH_PARAMETER" /\ Contains(setupResult.endpoint, replaceMe)
       THEN \* the string that replace() returns is not assigned
            setupResult
       ELSE IF param.use = "QUERY_PARAMETER"
       THEN [setupResult EXCEPT !.endpoint =
               @ \o << Lit(IF Contains(@, Lit("?")) THEN "&" ELSE "?"),
                       Lit(encodeURIComponent(param.id)), Lit("="),
                       Lit(encodeURIComponent(ToStr(callData[param.id]))) >>]
       ELSE setupResult
  ELSE ErrorSetup(setupResult, << MissingParamLine,
                                  "- Resource: " \o resourceName,
                                  "- Call type: " \o callName >>)

RECURSIVE forEach(_, _, _, _, _)
forEach(setupResult, params, callData, resourceName, callName) ==
  IF params = << >>
  THEN setupResult
  ELSE forEach(paramCallback(setupResult, Head(params), callData, resourceName, callName),
               Tail(params), callData, resourceName, callName)

\* Whether obj.name is a member that can be called.
HasMethod(obj, name) == name \in DOMAIN obj

getCallSetupSync(resourceName, callName, callData) ==
  LET s0 == NewSetupResult IN
  IF ~ hasOwnProperty(apiConfig.resources, resourceName)
  THEN [threw |-> FALSE,
        setupResult |-> ErrorSetup(s0,
           << "No setup was found in apiConfig for the specified resource" >>)]
  ELSE
    LET resConfig == apiConfig.resources[resourceName] IN
    IF resConfig.api = ""
    THEN [threw |-> FALSE,
          setupResult |-> ErrorSetup(s0,
             << "No API version was specified in the apiConfig object" >>)]
    ELSE
      LET s1 == [s0 EXCEPT !.endpoint = @ \o << Lit("/dw/" \o resConfig.api \o "/") >>] IN
      IF ~ hasOwnProperty(resConfig.availableCalls, callName)
      THEN \* no else branch in the code: the descriptor is left as it is
           [threw |-> FALSE, setupResult |-> s1]
      ELSE
        LET callConfig == resConfig.availableCalls[callName]
            s2 == IF callConfig.path # << >>
                  THEN [s1 EXCEPT !.endpoint = @ \o callConfig.path]
                  ELSE ErrorSetup(s1, << "Missing call path in the apiConfig.",
                                         "- OCAPI resource: " \o resourceName,
                                         "- Call type: " \o callName >>)
        IN IF Len(callConfig.params) > 0
           THEN \* 'callConfig.forEach(...)': callConfig is the call's object
                \* literal, not its params array; calling a member it does
                \* not have is a TypeError, and the async function rejects.
                IF HasMethod(callConfig, "forEach")
                THEN [threw |-> FALSE,
                      setupResult |-> forEach(s2, callConfig.params, callData,
                                              resourceName, callName)]
                ELSE [threw |-> TRUE, setupResult |-> s2]
           ELSE [threw |-> FALSE, setupResult |-> s2]

(***************************************************************************)
(* Connection discovery.                                                   *)
(***************************************************************************)
\* The dw.json files a workspace may hold, and what each parses to.
Files == {"fA", "fB"}

DefaultConfig == [endpoint |-> "", ok |-> FALSE, password |-> "", username |-> ""]

\* readConfigFromFile: the parsed file, with ok forced to true.
readConfigFromFile(filePath) ==
  [endpoint |-> IF filePath = "fA" THEN "https://hostA" ELSE "https://hostB",
   ok |-> TRUE, password |-> "secret", username |-> "user"]

\* The test getDWConfig makes before it searches (lines 185-189).
AlreadyLoaded(conf) ==
  conf.endpoint # "" /\ conf.username # "" /\ conf.password # "" /\ conf.ok

\* The workspaces: no folder open (workspaceFolders is undefined), or a
\* folder holding some of the files.
Workspaces ==
  {[open |-> FALSE, files |-> {}]} \cup {[open |-> TRUE, files |-> fs] : fs \in SUBSET Files}

(***************************************************************************)
(* The inputs of getCallSetup.                                             *)
(***************************************************************************)
ResourceNames == {"systemObjectDefinitions", "customObjectDefinitions"}

CallNames == DOMAIN apiConfig.resources.systemObjectDefinitions.availableCalls \cup {"getSites"}

DataBags ==
  { << >>,
    [select |-> Str(""), count |-> Num(0)],
    [select |-> Str("(**)")],
    [select |-> Str("(**)"), count |-> Num(500), objectType |-> Str("Product"),
     id |-> Str("a1"), groupId |-> Str("g1"), attributeId |-> Str("a1")] }

Callers == {1, 2}

VARIABLES
  workspace,    \* the editor's workspace: the folders and their dw.json files
  dwConfig,     \* OCAPIService.dwConfig
  inv,          \* per caller: its getCallSetup invocation
  started,      \* invocations started so far
  discoveries,  \* how many times the search of getDWConfig has been entered
  settings,     \* the extension's settings: which categories to show
  asked,      \* the asked whose children the host asked for last
  tpc,          \* where that getChildren call stands
  request,      \* the call its strategy set up
  response,   \* what makeCall settled with
  children,     \* what getChildren settled with
  handed,       \* the descriptors given to makeCall by this getChildren call
  fetches,      \* the second fetches made by this getChildren call
  expansion,    \* what getExpandedAttribute settled with
  remembered,   \* history: the last getChildren call before the last refresh
  presented,    \* what getXMLFromNode ended with, and for which node
  wire,         \* the wire document of an attribute definition
  ownerType,    \* the object type that owns the attribute
  epc,          \* where the export of the attribute stands
  parsed,       \* the document model parsed from the wire document
  xml,          \* the XML exported for the attribute
  document      \* what getDocument() returned for the attribute

rvars == << workspace, dwConfig, inv, started, discoveries >>

tvars == << settings, asked, tpc, request, response, children, handed, fetches,
           expansion, remembered >>

evars == << wire, ownerType, epc, parsed, xml, document, presented >>

vars == << workspace, dwConfig, inv, started, discoveries,
           settings, asked, tpc, request, response, children, handed, fetches,
           expansion, remembered,
           wire, ownerType, epc, parsed, xml, document, presented >>

Idle == [pc |-> "idle", resourceName |-> "", callName |-> "", callData |-> << >>,
         setupResult |-> NewSetupResult, outcome |-> "none", conn |-> "none",
         filePath |-> "", loaded |-> DefaultConfig,
         searched |-> FALSE, overlapped |-> FALSE]

(***************************************************************************)
(* The tree materializer.                                                  *)
(*                                                                         *)
(* Spec: the host expands the tree one node at a time, from the root down, *)
(* and may refresh.  The provider's service and helpers are awaited; what  *)
(* they settle with is the environment's choice.                           *)
(***************************************************************************)
Undefined == [t |-> "undefined"]

Bool(b) == [t |-> "boolean", v |-> b]

\* A localized string: { default: s }
Loc(s) == [t |-> "object", kind |-> "localized", default |-> s]

\* args.key, undefined when the wire document lacks it.
Field(args, key) == IF key \in DOMAIN args THEN args[key] ELSE Undefined

\* '.'-joined lineage strings are held as the sequence of their segments.
Path(parentId, segment) == Append(parentId, segment)

\* path.pop(): the last segment, undefined on an empty array.
Last(path) == IF Len(path) = 0 THEN "undefined" ELSE path[Len(path)]

ButLast(path) == IF Len(path) = 0 THEN path ELSE SubSeq(path, 1, Len(path) - 1)

NoPayload == [kind |-> "none"]

\* new MetadataNode(name, collapsibleState, data): expandable unless the
\* state is None; nodeType is the key under which data carries a document.
MetadataNode(name, collapsed, nodeType, parentId, displayDescription, payload) ==
  [name |-> name, expandable |-> collapsed, nodeType |-> nodeType,
   parentId |-> parentId, displayDescription |-> displayDescription,
   payload |-> payload]

\* new ObjectTypeDefinition(args)
ObjectTypeDefinition(args) ==
  [kind |-> "objectTypeDefinition",
   objectType |-> Field(args, "object_type").v,
   attributeDefinitionCount |->
      IF "attribute_definition_count" \in DOMAIN args
      THEN args.attribute_definition_count.v ELSE 0,
   attributeGroupCount |->
      IF "attribute_group_count" \in DOMAIN args
      THEN args.attribute_group_count.v ELSE 0]

(***************************************************************************)
(* What the remote instance holds.                                         *)
(***************************************************************************)
ObjectTypeRows ==
  << [object_type |-> Str("Product"), attribute_definition_count |-> Num(3),
      attribute_group_count |-> Num(1)],
     [object_type |-> Str("CustomObject"), display_name |-> Loc("MyCustom"),
      attribute_definition_count |-> Num(1), attribute_group_count |-> Num(0)],
     [object_type |-> Str("CustomObject")] >>

AttributeRows ==
  << [id |-> Str("a1"), value_type |-> Str("string"),
      default_value |-> [id |-> Str("d1"), value |-> Str("none")]],
     [id |-> Str("a2"), value_type |-> Str("enum_of_int"),
      display_name |-> Loc("Second")],
     [id |-> Str("a3")] >>

GroupRows ==
  << [id |-> Str("g1"), display_name |-> Loc("Group one"),
      attribute_definitions_count |-> Num(2),
      attribute_definitions |-> << [id |-> Str("a1")], [id |-> Str("a2")] >>],
     [id |-> Str("g2"), attribute_definitions_count |-> Num(0)] >>

RowsOf(callName) ==
  CASE callName = "getAll" -> ObjectTypeRows
    [] callName = "getAttributes" -> AttributeRows
    [] callName = "getAttributeGroups" -> GroupRows

\* The bodies the executor may hand back for a list call: the rows, an
\* empty page, a count of zero without data, a fault, or a body with none
\* of these.
DataResponse(rows) == [kind |-> "body", error |-> FALSE, hasData |-> TRUE,
                       data |-> rows, hasCount |-> TRUE, count |-> Len(rows)]

CountZeroResponse == [kind |-> "body", error |-> FALSE, hasData |-> FALSE,
                      data |-> << >>, hasCount |-> TRUE, count |-> 0]

FaultResponse == [kind |-> "body", error |-> TRUE, hasData |-> FALSE,
                  data |-> << >>, hasCount |-> FALSE, count |-> 0]

BareResponse == [kind |-> "body", error |-> FALSE, hasData |-> FALSE,
                 data |-> << >>, hasCount |-> FALSE, count |-> 0]

\* makeCall as it stands in OCAPIService.ts: no return statement.
UndefinedResponse == [kind |-> "undefined", error |-> FALSE, hasData |-> FALSE,
                      data |-> << >>, hasCount |-> FALSE, count |-> 0]

\* makeCall rejects: a transport failure.
RejectedResponse == [kind |-> "rejected", error |-> FALSE, hasData |-> FALSE,
                     data |-> << >>, hasCount |-> FALSE, count |-> 0]

Responses(callName) ==
  { DataResponse(RowsOf(callName)), DataResponse(<< >>), CountZeroResponse,
    FaultResponse, BareResponse, UndefinedResponse, RejectedResponse }

\* How an awaited getCallSetup settles for the provider: a resolved
\* descriptor, a descriptor flagged setupError, or a rejection.
SetupOutcomes == {"resolved", "setupError", "threw"}

CallSetup(resourceName, callName, callData, outcome) ==
  [resourceName |-> resourceName, callName |-> callName, callData |-> callData,
   setupError |-> (outcome = "setupError")]

(***************************************************************************)
(* The strategies without a request.                                       *)
(***************************************************************************)
Resolves(nodes) == [status |-> "list", nodes |-> nodes]

Rejects == [status |-> "rejected", nodes |-> << >>]

\* An async function that runs off its end resolves to undefined.
ResolvesUndefined == [status |-> "undefined", nodes |-> << >>]

BaseNode(name, baseNodeName) ==
  MetadataNode(name, TRUE, "baseNodeName", << "root" >>, "",
               [kind |-> "baseNodeName", baseNodeName |-> baseNodeName])

getRootChildrenReversed(config) ==
  (IF config.sitepreferences
   THEN << BaseNode("Site Preferences", "sitePreferences") >>
   ELSE << >>)
  \o (IF config.customobjects
      THEN << BaseNode("Custom Object Definitions", "customObjectDefinitions") >>
      ELSE << >>)
  \o (IF config.systemobjects
      THEN << BaseNode("System Object Definitions", "systemObjectDefinitions") >>
      ELSE << >>)

\* getRootChildren
getRootChildren(config) ==
  (IF config.systemobjects
   THEN << BaseNode("System Object Definitions", "systemObjectDefinitions") >>
   ELSE << >>)
  \o (IF config.customobjects
      THEN << BaseNode("Custom Object Definitions", "customObjectDefinitions") >>
      ELSE << >>)
  \o (IF config.sitepreferences
      THEN << BaseNode("Site Preferences", "sitePreferences") >>
      ELSE << >>)

\* parentId.indexOf('customObjectDefinitions') > -1
UnderCustomObjects(parentId) ==
  \E i \in 1..Len(parentId) : parentId[i] = "customObjectDefinitions"

getObjectDefinitionChildrenAllExpandable(element) ==
  LET def == element.payload
      container(ctnrName, text, count) ==
        MetadataNode(text, TRUE, "parentContainer",
                     Path(element.parentId, def.objectType), ToString(count),
                     [kind |-> "parentContainer", parentContainer |-> ctnrName])
  IN << container("objectAttributeDefinitions", "Attribute Definitions",
                  def.attributeDefinitionCount),
        container("objectAttributeGroups", "Attribute Groups",
                  def.attributeGroupCount) >>

\* getObjectDefinitionChildren
getObjectDefinitionChildren(element) ==
  LET def == element.payload
      container(ctnrName, text, count) ==
        MetadataNode(text, ~ UnderCustomObjects(element.parentId), "parentContainer",
                     Path(element.parentId, def.objectType), ToString(count),
                     [kind |-> "parentContainer", parentContainer |-> ctnrName])
  IN << container("objectAttributeDefinitions", "Attribute Definitions",
                  def.attributeDefinitionCount),
        container("objectAttributeGroups", "Attribute Groups",
                  def.attributeGroupCount) >>

(***************************************************************************)
(* The strategies with a request: the call each one sets up, and the       *)
(* children it makes of the response.                                      *)
(***************************************************************************)
\* resultObj.display_name ? resultObj.display_name.default : ''
DisplayNameOf(resultObj) ==
  IF "display_name" \in DOMAIN resultObj THEN resultObj.display_name.default ELSE ""

IsAttributeContainer(element) == element.name # "Attribute Groups"

\* The arguments of the getCallSetup call a strategy makes.
RequestOf(element) ==
  IF element.nodeType = "baseNodeName"
  THEN IF element.payload.baseNodeName = "sitePreferences"
       THEN [strategy |-> "getAllPreferences",
             resourceName |-> "systemObjectDefinitions",
             callName |-> "getAttributeGroups",
             callData |-> [select |-> Str("(**)"), expand |-> Str("definition"),
                           objectType |-> Str("SitePreferences")]]
       ELSE [strategy |-> "getBaseNodeChildren",
             resourceName |-> element.payload.baseNodeName,
             callName |-> "getAll",
             callData |-> [count |-> Num(500), select |-> Str("(**)")]]
  ELSE LET objectType == Last(element.parentId)
           parentType == Last(ButLast(element.parentId))
       IN IF IsAttributeContainer(element)
          THEN [strategy |-> "attributeContainer",
                resourceName |-> parentType,
                callName |-> "getAttributes",
                callData |-> [count |-> Num(700), objectType |-> Str(objectType),
                              select |-> Str("(**)")]]
          ELSE [strategy |-> "groupContainer",
                resourceName |-> "systemObjectDefinitions",
                callName |-> "getAttributeGroups",
                callData |-> [select |-> Str("(**)"), count |-> Num(150),
                              expand |-> Str("definition"),
                              objectType |-> Str(objectType)]]

\* A body whose data is an array and which carries no error.
HasRows(callResult) == ~ callResult.error /\ callResult.hasData

Leaf(name, parentId) == MetadataNode(name, FALSE, "", parentId, "", NoPayload)

\* getBaseNodeChildren, from the response on (lines 417-444).
BaseNodeChildren(element, callResult) ==
  LET baseName == element.payload.baseNodeName
      keep(obj) == IF baseName = "systemObjectDefinitions"
                   THEN obj.object_type.v # "CustomObject"
                   ELSE obj.object_type.v = "CustomObject" /\ "display_name" \in DOMAIN obj
      rows == SelectSeq(callResult.data, keep)
      node(obj) ==
        MetadataNode(IF baseName = "systemObjectDefinitions" THEN obj.object_type.v
                     ELSE IF baseName = "customObjectDefinitions"
                     THEN obj.display_name.default ELSE "",
                     TRUE, "objectTypeDefinition", << "root", baseName >>, " ",
                     ObjectTypeDefinition(obj))
  IN IF callResult.kind = "undefined" THEN Rejects
     ELSE IF callResult.hasData
     THEN Resolves([i \in 1..Len(rows) |-> node(rows[i])])
     ELSE ResolvesUndefined

(***************************************************************************)
(* Attribute definitions.                                                  *)
(***************************************************************************)
Null == [t |-> "object", kind |-> "null"]

Array(items) == [t |-> "object", kind |-> "array", items |-> items]

\* x || d
Or(x, d) == IF Truthy(x) THEN x ELSE d

\* The value types of the remote platform.
ValueTypes == {"string", "int", "boolean", "enum_of_int", "enum_of_string", ""}

\* valueType.indexOf('enum'), over the value types above.
indexOf(valueType, search) ==
  IF search = "enum" /\ valueType \in {"enum_of_int", "enum_of_string"} THEN 0 ELSE -1

\* new ObjectAttributeValueDefinition(args)
ObjectAttributeValueDefinition(args) ==
  [t |-> "object", kind |-> "valueDefinition", id |-> Field(args, "id"),
   value |-> Field(args, "value")]

\* Object.keys(new ObjectAttributeDefinition(args)): the field initialized
\* at its declaration first, then the constructor's assignments in order.
ObjectAttributeDefinitionKeys ==
  << "MEMBER_MAP", "defaultValue", "description", "displayName", "effectiveId",
     "externallyDefined", "externallyManaged", "fieldHeight", "fieldWidth", "id",
     "key", "link", "localizable", "mandatory", "maxValue", "minLength",
     "minValue", "multiValueType", "orderRequired", "queryable", "readOnly",
     "regularExpression", "requiresEncoding", "scale", "searchable",
     "setValueType", "siteSpecific", "system", "unit", "valueDefinitions",
     "valueType", "visible", "includedFields" >>

\* new ObjectAttributeDefinition(args)
ObjectAttributeDefinition(args) ==
  [MEMBER_MAP |-> [t |-> "object", kind |-> "map"],
   defaultValue |-> ObjectAttributeValueDefinition(Field(args, "default_value")),
   description |-> Or(Field(args, "description"), Loc("")),
   displayName |-> Or(Field(args, "display_name"), Loc("")),
   effectiveId |-> Or(Field(args, "effective_id"), Str("")),
   externallyDefined |-> Or(Field(args, "externally_defined"), Bool(FALSE)),
   externallyManaged |-> Or(Field(args, "externally_managed"), Bool(FALSE)),
   fieldHeight |-> Or(Field(args, "field_height"), Num(-1)),
   fieldWidth |-> Or(Field(args, "field_width"), Num(-1)),
   id |-> Or(Field(args, "id"), Str("")),
   key |-> Or(Field(args, "key"), Bool(FALSE)),
   link |-> Or(Field(args, "link"), Str("")),
   localizable |-> Or(Field(args, "localizable"), Bool(FALSE)),
   mandatory |-> Or(Field(args, "mandatory"), Bool(FALSE)),
   maxValue |-> Or(Field(args, "max_value"), Null),
   minLength |-> Or(Field(args, "min_length"), Num(-1)),
   minValue |-> Or(Field(args, "min_value"), Null),
   multiValueType |-> Or(Field(args, "multi_value_type"), Bool(FALSE)),
   orderRequired |-> Or(Field(args, "order_required"), Bool(FALSE)),
   queryable |-> Or(Field(args, "queryable"), Bool(FALSE)),
   readOnly |-> Or(Field(args, "read_only"), Bool(FALSE)),
   regularExpression |-> Or(Field(args, "regular_expression"), Str("")),
   requiresEncoding |-> Or(Field(args, "requires_encoding"), Bool(FALSE)),
   scale |-> Or(Field(args, "scale"), Num(-1)),
   searchable |-> Or(Field(args, "searchable"), Bool(FALSE)),
   setValueType |-> Or(Field(args, "set_value_type"), Str("")),
   siteSpecific |-> Or(Field(args, "site_specific"), Bool(FALSE)),
   system |-> Or(Field(args, "system"), Bool(FALSE)),
   unit |-> Or(Field(args, "unit"), Loc("")),
   valueDefinitions |-> Or(Field(args, "value_definitions"), Array(<< >>)),
   valueType |-> Or(Field(args, "value_type"), Str("")),
   visible |-> Or(Field(args, "visible"), Bool(FALSE)),
   includedFields |-> Or(Field(args, "includeFields"), Array(<< >>))]

\* The row of an attribute definition, as a node.
AttributeNode(parentId, resultObj) ==
  MetadataNode(resultObj.id.v, TRUE, "objectAttributeDefinition", parentId,
               DisplayNameOf(resultObj),
               [kind |-> "objectAttributeDefinition",
                doc |-> ObjectAttributeDefinition(resultObj)])

AlwaysEnumType(objAttrDef) == TRUE

\* The check of line 662: the attribute is of an enumeration type.
IsEnumType(objAttrDef) == indexOf(objAttrDef.valueType.v, "enum") > -1

\* OCAPIHelper.getExpandedAttribute(element) settles with the attribute's
\* document including its value definitions, with nothing, or rejects.
ExpandedAttribute(element) ==
  [id |-> element.payload.doc.id, value_type |-> element.payload.doc.valueType,
   value_definitions |->
     Array(<< ObjectAttributeValueDefinition([id |-> Str("v1"), value |-> Num(1)]),
              ObjectAttributeValueDefinition([id |-> Str("v2"), value |-> Num(2)]) >>)]

ExpansionOutcomes == {"document", "nothing", "rejected"}

\* The callback of the map of lines 673-734.
MemberNode(element, key, value) ==
  LET parentId == Path(element.parentId, element.payload.doc.id.v)
  IN IF value.t \in {"string", "number", "boolean"}
     THEN Leaf(key \o " : " \o ToStr(value), parentId)
     ELSE IF value.t = "object" /\ value.kind = "localized"
     THEN Leaf(key \o " : " \o value.default, parentId)
     ELSE IF value.t = "object" /\ value.kind = "valueDefinition"
     THEN IF value.id # Undefined
          THEN MetadataNode(key \o ": " \o ToStr(value.id), TRUE,
                            "objectAttributeValueDefinition", parentId, "", value)
          ELSE MetadataNode(key \o ": (undefined)", FALSE,
                            "objectAttributeValueDefinition", parentId, "", value)
     ELSE IF value.t = "object" /\ value.kind = "array" /\ Len(value.items) > 0
     THEN MetadataNode("Value Definitions", TRUE, "objectAttributeValueDefinitions",
                       parentId, "", value)
     ELSE Undefined

\* getAttributeDefinitionChildren, from line 671 on.
AttributeDefinitionChildren(element, objAttrDef) ==
  Resolves([i \in 1..Len(ObjectAttributeDefinitionKeys) |->
              MemberNode(element, ObjectAttributeDefinitionKeys[i],
                         objAttrDef[ObjectAttributeDefinitionKeys[i]])])

\* The row of an attribute group, as a node.
RowNode(nodeType, parentId, resultObj) ==
  MetadataNode(resultObj.id.v, TRUE, nodeType, parentId, DisplayNameOf(resultObj),
               [kind |-> nodeType, raw |-> resultObj])

\* new ObjectAttributeGroup(args)
ObjectAttributeGroup(args) ==
  [id |-> Or(Field(args, "id"), Str("")),
   description |-> Or(Field(args, "description"), Loc("")),
   displayName |-> Or(Field(args, "display_name"), Loc("")),
   internal |-> Or(Field(args, "internal"), Bool(FALSE)),
   position |-> Or(Field(args, "position"), Num(0)),
   link |-> Or(Field(args, "link"), Str("")),
   attributeDefinitionsCount |-> Or(Field(args, "attribute_definitions_count"), Num(0)),
   attributeDefinitions |->
     IF "attribute_definitions" \in DOMAIN args THEN args.attribute_definitions
     ELSE << >>]

\* The properties listed at lines 627-634, with the labels of nodeMap.
GroupProperties ==
  << [property |-> "id", label |-> "id"],
     [property |-> "description", label |-> "description"],
     [property |-> "displayName", label |-> "display name"],
     [property |-> "internal", label |-> "internal"],
     [property |-> "position", label |-> "position"],
     [property |-> "link", label |-> "link"] >>

\* A property value as the description of a tree item.
Described(value) ==
  IF value.t = "object" THEN value.default ELSE ToStr(value)

\* getAttributeGroupChildren
getAttributeGroupChildren(element) ==
  LET attrGroup == ObjectAttributeGroup(element.payload.raw)
      hasAttributes == attrGroup.attributeDefinitionsCount.v > 0
      parentId == Path(element.parentId, attrGroup.id.v)
      attrDefTitles == [i \in 1..Len(attrGroup.attributeDefinitions) |->
                          attrGroup.attributeDefinitions[i].id.v]
  IN (IF hasAttributes
      THEN << MetadataNode("Attributes", TRUE, "stringList", parentId,
                           ToStr(attrGroup.attributeDefinitionsCount),
                           [kind |-> "stringList", stringList |-> attrDefTitles]) >>
      ELSE << >>)
     \o [i \in 1..Len(GroupProperties) |->
           MetadataNode(GroupProperties[i].label, FALSE, "", parentId,
                        Described(attrGroup[GroupProperties[i].property]),
                        NoPayload)]

NeverEmptyList(callResult) == FALSE

\* The test of lines 359-363: no error and a count of zero.
IsEmptyList(callResult) ==
  ~ callResult.error /\ callResult.hasCount /\ callResult.count = 0

\* getAttributeOrGroupContainerChildren, from the response on: the
\* attribute branch (lines 294-323) and the group branch (lines 340-383).
ContainerChildren(element, callResult) ==
  LET objectType == Last(element.parentId)
      below == Path(element.parentId, objectType)
  IN IF callResult.kind = "undefined" THEN Rejects
     ELSE IF IsAttributeContainer(element)
     THEN IF HasRows(callResult)
          THEN Resolves([i \in 1..Len(callResult.data) |->
                           AttributeNode(below, callResult.data[i])])
          ELSE Resolves(<< Leaf("Unable to load...",
                                << "root", "systemObjectDefinitions", objectType >>) >>)
     ELSE IF HasRows(callResult)
          THEN Resolves([i \in 1..Len(callResult.data) |->
                           RowNode("objectAttributeGroup", below, callResult.data[i])])
          ELSE IF IsEmptyList(callResult)
          THEN Resolves(<< Leaf("No attribute groups defined", below) >>)
          ELSE Resolves(<< Leaf("Unable to load...", below) >>)

\* SitePreferencesHelper.getAllPreferences, from the response on.
AllPreferences(callResult) ==
  IF callResult.kind = "undefined" THEN Rejects
  ELSE IF HasRows(callResult)
  THEN Resolves([i \in 1..Len(callResult.data) |->
                   RowNode("objectAttributeGroup", << "sitePreferences" >>,
                           callResult.data[i])])
  ELSE IF ~ callResult.error /\ callResult.hasCount /\ callResult.count = 0
  THEN Resolves(<< Leaf("No attribute groups defined", << "sitePreferences" >>) >>)
  ELSE ResolvesUndefined

ChildrenOfOnce(strategy, element, callResult) ==
  IF callResult.kind = "rejected" THEN Rejects
  ELSE IF remembered.asked = element THEN Resolves(<< >>)
  ELSE CASE strategy = "getBaseNodeChildren" -> BaseNodeChildren(element, callResult)
         [] strategy = "getAllPreferences" -> AllPreferences(callResult)
         [] OTHER -> ContainerChildren(element, callResult)

ChildrenOfCached(strategy, element, callResult) ==
  IF callResult.kind = "rejected" THEN Rejects
  ELSE IF remembered.asked = element /\ remembered.children.status = "list"
  THEN remembered.children
  ELSE CASE strategy = "getBaseNodeChildren" -> BaseNodeChildren(element, callResult)
         [] strategy = "getAllPreferences" -> AllPreferences(callResult)
         [] OTHER -> ContainerChildren(element, callResult)

\* What a strategy makes of the settled makeCall.
ChildrenOf(strategy, element, callResult) ==
  IF callResult.kind = "rejected" THEN Rejects
  ELSE CASE strategy = "getBaseNodeChildren" -> BaseNodeChildren(element, callResult)
         [] strategy = "getAllPreferences" -> AllPreferences(callResult)
         [] OTHER -> ContainerChildren(element, callResult)

(***************************************************************************)
(* The export serializer and the projection back to the wire.              *)
(*                                                                         *)
(* SpecExport: a wire document of an attribute definition is parsed, then  *)
(* exported as XML for its owning object type and projected back with      *)
(* getDocument().                                                          *)
(***************************************************************************)
\* The wire documents: an id and a value type, with or without the
\* mandatory flag, a default value, value definitions and further fields.
Mandatories == {<< >>, [mandatory |-> Bool(TRUE)], [mandatory |-> Bool(FALSE)]}

DefaultValues == {<< >>, [default_value |-> [value |-> Str("x")]]}

\* Three entries: display value and value, display value only, both again.
WireValueDefinitions ==
  Array(<< [id |-> Str("v1"), display_value |-> Loc("One"), value |-> Str("1")],
           [id |-> Str("v2"), display_value |-> Loc("Two")],
           [id |-> Str("v3"), display_value |-> Loc("Three"), value |-> Str("3")] >>)

ValueDefinitionLists == {<< >>, [value_definitions |-> WireValueDefinitions]}

FurtherFields ==
  {<< >>,
   [display_name |-> Loc("My attribute"), min_length |-> Num(0),
    effective_id |-> Str(""), key |-> Bool(FALSE), localizable |-> Bool(TRUE),
    field_height |-> Num(7)]}

WireValueTypes == {"string", "String", "enum_of_string", "int"}

WireDocuments ==
  {[id |-> Str("myAttr"), value_type |-> Str(vt)] @@ m @@ dv @@ vd @@ ff :
     vt \in WireValueTypes, m \in Mandatories, dv \in DefaultValues,
     vd \in ValueDefinitionLists, ff \in FurtherFields}

OwnerTypes == {"Product", "SitePreferences", "Order"}

\* An XML element: its name, its attribute, its text and its children.
Element(name, attr, text, kids) ==
  [name |-> name, attr |-> attr, text |-> text, children |-> kids]

NoChildren == << >>

\* The text xmlbuilder writes for a value; none for undefined.
Text(x) == IF x.t = "undefined" \/ (x.t = "object" /\ x.kind = "null") THEN "" ELSE ToStr(x)

toLocaleLowerCaseBlank(s) == ""

\* valueType.toLocaleLowerCase(), over the wire value types.
toLocaleLowerCase(s) == IF s = "String" THEN "string" ELSE s

\* The callback of lines 118-128, on one entry of attribute.valueDefinitions.
valueDefinitionXML(valDef) ==
  IF Truthy(Field(valDef, "displayValue")) /\ Truthy(Field(valDef, "value"))
  THEN << Element("value-definition", "", "",
            << Element("display", "xml:lang=x-default",
                       Field(valDef, "displayValue").default, NoChildren),
               Element("value", "", ToStr(Field(valDef, "value")), NoChildren) >>) >>
  ELSE << >>

RECURSIVE valueDefinitionsXML(_)
valueDefinitionsXML(valDefs) ==
  IF valDefs = << >> THEN << >>
  ELSE valueDefinitionXML(Head(valDefs)) \o valueDefinitionsXML(Tail(valDefs))

DefaultValueXML(attribute) ==
  IF Truthy(attribute.defaultValue)
  THEN << Element("default-value", "", Text(attribute.defaultValue.value), NoChildren) >>
  ELSE << >>

\* XMLHandler.getObjectAttributeXML: the type-extension element it adds to
\* the root.
getObjectAttributeXML(systemObjectType, attribute) ==
  LET valType == toLocaleLowerCase(attribute.valueType.v)
      flag(name, value) == Element(name, "", Text(value), NoChildren)
      always ==
        << Element("display-name", "xml:lang=x-default",
                   attribute.displayName.default, NoChildren),
           Element("description", "xml:lang=x-default",
                   attribute.description.default, NoChildren),
           flag("type", attribute.valueType),
           flag("mandatory-flag", attribute.mandatory),
           flag("externally-managed-flag", attribute.externallyManaged) >>
      byValueType ==
        IF valType = "string"
        THEN << flag("min-length", attribute.minLength) >>
        ELSE IF indexOf(valType, "enum") > -1 /\ Len(attribute.valueDefinitions.items) # 0
        THEN << Element("value-definitions", "", "",
                        valueDefinitionsXML(attribute.valueDefinitions.items)) >>
        ELSE << >>
      byOwner ==
        CASE systemObjectType = "Product" ->
               << flag("localizable-flag", attribute.localizable),
                  flag("site-specific-flag", attribute.siteSpecific),
                  flag("visible-flag", attribute.visible),
                  flag("order-required-flag", attribute.orderRequired),
                  flag("externally-defined-flag", attribute.externallyDefined) >>
               \o DefaultValueXML(attribute)
          [] systemObjectType = "SitePreferences" -> DefaultValueXML(attribute)
          [] OTHER -> << >>
  IN Element("type-extension", "type-id=" \o systemObjectType, "",
       << Element("custom-attribute-definitions", "", "",
            << Element("attribute-definition",
                       "attribute-id=" \o attribute.id.v, "",
                       always \o byValueType \o byOwner) >>) >>)

\* ObjectAttributeDefinition.MEMBER_MAP
MEMBER_MAP ==
  [defaultValue |-> "default_value", displayName |-> "display_name",
   effectiveId |-> "effective_id", externallyDefined |-> "externally_defined",
   externallyManaged |-> "externally_managed", fieldHeight |-> "field_height",
   fieldWidth |-> "field_width", maxValue |-> "max_value",
   minLength |-> "min_length", minValue |-> "min_value",
   multiValueType |-> "multi_value_type", orderRequired |-> "order_required",
   readOnly |-> "read_only", regularExpression |-> "regular_expression",
   requiresEncoding |-> "requires_encoding", setValueType |-> "set_value_type",
   siteSpecific |-> "site_specific", valueDefinitions |-> "value_definitions",
   valueType |-> "value_type"]

\* names.filter(name => fields.indexOf(name) > -1)
Among(names, fields) ==
  SelectSeq(names, LAMBDA name : \E i \in 1..Len(fields) : fields[i] = name)

\* JSON.stringify(documentObj): the text of an object, held as its members
\* in their order.
JSONstringify(members) == [t |-> "string", json |-> members]

\* ObjectAttributeDefinition.getDocument(includeFields)
getDocument(this, includeFields) ==
  LET mmNames == DOMAIN MEMBER_MAP
      memberNames ==
        IF Len(includeFields) # 0
        THEN Among(ObjectAttributeDefinitionKeys, includeFields)
        ELSE IF Len(this.includedFields.items) # 0
        THEN Among(ObjectAttributeDefinitionKeys, this.includedFields.items)
        ELSE ObjectAttributeDefinitionKeys
      kept == SelectSeq(memberNames,
                LAMBDA name : name \in mmNames /\ Truthy(this[name]))
  IN JSONstringify([i \in 1..Len(kept) |->
                      [key |-> MEMBER_MAP[kept[i]], value |-> this[kept[i]]]])

NoAttribute == [kind |-> "none"]

NoXML == Element("", "", "", NoChildren)

NoDocument == [t |-> "undefined"]

(***************************************************************************)
(* getChildren and its awaits.                                             *)
(***************************************************************************)
\* getChildren() without an element.
NoElement == MetadataNode("", FALSE, "none", << >>, "", NoPayload)

NoRequest == [strategy |-> "none", resourceName |-> "", callName |-> "",
              callData |-> << >>]

NoResponse == [kind |-> "none", error |-> FALSE, hasData |-> FALSE,
               data |-> << >>, hasCount |-> FALSE, count |-> 0]

Pending == [status |-> "pending", nodes |-> << >>]

Settings ==
  [systemobjects : BOOLEAN, customobjects : BOOLEAN, sitepreferences : BOOLEAN]

\* XMLHandler.NAMESPACE_STRING
NAMESPACE_STRING == "http://www.demandware.com/xml/impex/metadata/2006-10-31"

\* XMLHandler.getObjectGroupXML: the type-extension element it adds to the
\* root.
getObjectGroupXML(systemObjectType, objectAttributeGroup) ==
  Element("type-extension", "type-id=" \o systemObjectType, "",
    << Element("group-definitions", "", "",
         << Element("attribute-group", "group-id=" \o objectAttributeGroup.id.v, "",
              << Element("display-name", "xml:lang=x-default",
                         objectAttributeGroup.displayName.default, NoChildren) >>
              \o [i \in 1..Len(objectAttributeGroup.attributeDefinitions) |->
                    Element("attribute",
                            "attribute-id=" \o
                              objectAttributeGroup.attributeDefinitions[i].id.v,
                            "", NoChildren)]) >>) >>)

\* XMLHandler.getXMLFromNode: the promise's outcome and the content handed
\* to openTextDocument.
getXMLFromNode(metaNode) ==
  LET systemObjectType == Last(metaNode.parentId)
      rootNode(kids) == Element("metadata", "xmlns=" \o NAMESPACE_STRING, "", kids)
  IN [node |-> metaNode,
      status |-> "document",
      content |->
        IF metaNode.nodeType = "objectAttributeDefinition"
        THEN rootNode(<< getObjectAttributeXML(systemObjectType, metaNode.payload.doc) >>)
        ELSE IF metaNode.nodeType = "objectAttributeGroup"
        THEN rootNode(<< getObjectGroupXML(systemObjectType,
                           ObjectAttributeGroup(metaNode.payload.raw)) >>)
        ELSE rootNode(NoChildren)]

NothingPresented ==
  [node |-> MetadataNode("", FALSE, "none", << >>, "", NoPayload),
   status |-> "none", content |-> NoXML]

\* The nodes getXMLFromNode is invoked on: nodes of the strategies above.
ExportedNodes ==
  { AttributeNode(<< "root", "systemObjectDefinitions", "Product", "Product" >>,
                  AttributeRows[2]),
    RowNode("objectAttributeGroup",
            << "root", "systemObjectDefinitions", "Product", "Product" >>,
            GroupRows[1]),
    RowNode("objectAttributeGroup", << "sitePreferences" >>, GroupRows[1]),
    BaseNode("System Object Definitions", "systemObjectDefinitions"),
    Leaf("Unable to load...", << "root", "systemObjectDefinitions", "Product" >>) }

ExportAtRest ==
  /\ presented = NothingPresented
  /\ wire = [id |-> Str("")]
  /\ ownerType = ""
  /\ epc = "rest"
  /\ parsed = NoAttribute
  /\ xml = NoXML
  /\ document = NoDocument

\* A settled getChildren call: the node, what the awaits settled with and
\* the children returned.
Expansion(n, descriptors, result, outcome, nodes) ==
  [asked |-> n, handed |-> descriptors, response |-> result,
   expansion |-> outcome, children |-> nodes]

NothingRemembered == Expansion(NoElement, << >>, NoResponse, "none", Pending)

TreeAtRest ==
  /\ settings = [systemobjects |-> FALSE, customobjects |-> FALSE,
                 sitepreferences |-> FALSE]
  /\ expansion = "none"
  /\ remembered = NothingRemembered
  /\ asked = NoElement
  /\ tpc = "idle"
  /\ request = NoRequest
  /\ response = NoResponse
  /\ children = Pending
  /\ handed = << >>
  /\ fetches = 0

ResolverAtRest ==
  /\ workspace = [open |-> FALSE, files |-> {}]
  /\ dwConfig = DefaultConfig
  /\ inv = [c \in Callers |-> Idle]
  /\ started = 0
  /\ discoveries = 0

InitResolver ==
  /\ workspace \in Workspaces
  /\ dwConfig = DefaultConfig
  /\ inv = [c \in Callers |-> Idle]
  /\ started = 0
  /\ discoveries = 0
  /\ TreeAtRest
  /\ ExportAtRest

\* Lines 143-153, run when getDWConfig has resolved with conf.
Resolved(c, conf) ==
  /\ dwConfig' = conf
  /\ inv' = [inv EXCEPT ![c].pc = "done",
               ![c].outcome = "returned",
               ![c].conn = IF conf.ok THEN "ok" ELSE "notok",
               ![c].setupResult =
                  IF ~ conf.ok
                  THEN [@ EXCEPT !.setupError = TRUE]
                  ELSE [@ EXCEPT !.endpoint = << Lit(conf.endpoint) >> \o @]]

\* getDWConfig rejected: the await of line 143 throws and getCallSetup rejects.
Rejected(c) ==
  /\ inv' = [inv EXCEPT ![c].pc = "done", ![c].outcome = "threw", ![c].conn = "failed"]
  /\ UNCHANGED dwConfig

InFlight(c) == inv[c].pc \in {"loaded", "findFiles", "quickPick", "readFile"}

\* A caller invokes getCallSetup: everything up to the first suspension.
Invoke(c) ==
  /\ inv[c].pc \in {"idle", "done"}
  /\ started < MaxCalls
  /\ started' = started + 1
  /\ \E resourceName \in ResourceNames, callName \in CallNames, callData \in DataBags :
       LET r == getCallSetupSync(resourceName, callName, callData)
           o == CHOOSE x \in Callers : x # c
           rec == [Idle EXCEPT !.resourceName = resourceName, !.callName = callName,
                               !.callData = callData, !.setupResult = r.setupResult]
           suspended(rc) == [inv EXCEPT ![c] = [rc EXCEPT !.overlapped = InFlight(o)],
                                        ![o].overlapped = @ \/ InFlight(o)]
       IN
       IF r.threw
       THEN /\ inv' = [inv EXCEPT ![c] = [rec EXCEPT !.pc = "done", !.outcome = "threw"]]
            /\ UNCHANGED << dwConfig, discoveries >>
       ELSE IF r.setupResult.setupError
       THEN /\ inv' = [inv EXCEPT ![c] = [rec EXCEPT !.pc = "done", !.outcome = "returned"]]
            /\ UNCHANGED << dwConfig, discoveries >>
       ELSE IF AlreadyLoaded(dwConfig)
       THEN \* 'return await Promise.resolve(this.dwConfig)'
            /\ inv' = suspended([rec EXCEPT !.pc = "loaded", !.loaded = dwConfig])
            /\ UNCHANGED << dwConfig, discoveries >>
       ELSE /\ discoveries' = discoveries + 1
            /\ UNCHANGED dwConfig
            /\ IF ~ workspace.open
               THEN \* workspaceFolders.map on undefined
                    inv' = [inv EXCEPT ![c] = [rec EXCEPT !.pc = "done", !.searched = TRUE,
                                                 !.outcome = "threw", !.conn = "failed"]]
               ELSE inv' = suspended([rec EXCEPT !.pc = "findFiles", !.searched = TRUE])
  /\ UNCHANGED workspace

\* The await of the already loaded configuration resumes.
LoadedResumes(c) ==
  /\ inv[c].pc = "loaded"
  /\ Resolved(c, inv[c].loaded)
  /\ UNCHANGED << workspace, started, discoveries >>

\* workspace.findFiles resolves (lines 203-234).
FilesFound(c) ==
  /\ inv[c].pc = "findFiles"
  /\ LET configFiles == workspace.files IN
     IF Cardinality(configFiles) = 1
     THEN /\ inv' = [inv EXCEPT ![c].pc = "readFile",
                        ![c].filePath = CHOOSE f \in configFiles : TRUE]
          /\ UNCHANGED dwConfig
     ELSE IF Cardinality(configFiles) > 1
     THEN /\ inv' = [inv EXCEPT ![c].pc = "quickPick"]
          /\ UNCHANGED dwConfig
     ELSE Resolved(c, DefaultConfig)
  /\ UNCHANGED << workspace, started, discoveries >>

\* window.showQuickPick resolves: a file, or undefined when dismissed, and
\* then createReadStream(undefined) throws.
QuickPicked(c) ==
  /\ inv[c].pc = "quickPick"
  /\ \/ \E f \in workspace.files :
          /\ inv' = [inv EXCEPT ![c].pc = "readFile", ![c].filePath = f]
          /\ UNCHANGED dwConfig
     \/ Rejected(c)
  /\ UNCHANGED << workspace, started, discoveries >>

\* readConfigFromFile settles: the parsed file, or a read or parse error.
FileRead(c) ==
  /\ inv[c].pc = "readFile"
  /\ \/ Resolved(c, readConfigFromFile(inv[c].filePath))
     \/ Rejected(c)
  /\ UNCHANGED << workspace, started, discoveries >>

NextResolver ==
  /\ \E c \in Callers :
       \/ Invoke(c)
       \/ LoadedResumes(c)
       \/ FilesFound(c)
       \/ QuickPicked(c)
       \/ FileRead(c)
  /\ UNCHANGED << tvars, evars >>

Init ==
  /\ settings \in Settings
  /\ expansion = "none"
  /\ remembered = NothingRemembered
  /\ asked = NoElement
  /\ tpc = "idle"
  /\ request = NoRequest
  /\ response = NoResponse
  /\ children = Pending
  /\ handed = << >>
  /\ fetches = 0
  /\ ResolverAtRest
  /\ ExportAtRest

RequestingWhateverTheFlag(e) == e.nodeType \in {"baseNodeName", "parentContainer"}

\* The node types whose strategy starts with a request (lines 215-230).
Requesting(e) == e.expandable /\ e.nodeType \in {"baseNodeName", "parentContainer"}

\* getAttributeDefinitionChildren awaits the expanded attribute.
Expanding(e) ==
  /\ e.expandable
  /\ e.nodeType = "objectAttributeDefinition"
  /\ IsEnumType(e.payload.doc)

\* getChildren(asked), run to its end when the strategy awaits nothing.
Immediate(e) ==
  IF e = NoElement THEN Resolves(getRootChildren(settings))
  ELSE IF ~ e.expandable THEN Resolves(<< >>)
  ELSE CASE e.nodeType = "objectTypeDefinition" ->
              Resolves(getObjectDefinitionChildren(e))
         [] e.nodeType = "objectAttributeDefinition" ->
              AttributeDefinitionChildren(e, e.payload.doc)
         [] e.nodeType = "objectAttributeGroup" ->
              Resolves(getAttributeGroupChildren(e))
         [] OTHER -> ResolvesUndefined

\* The nodes the host holds and may expand next.
Shown ==
  IF tpc = "idle" THEN {NoElement}
  ELSE {children.nodes[i] : i \in 1..Len(children.nodes)} \ {Undefined}

\* The host asks for the children of a node: getChildren up to its first
\* await, or to its end.
GetChildren ==
  /\ tpc \in {"idle", "done"}
  /\ \E e \in Shown :
       /\ e = NoElement \/ ~ e.expandable
            \/ e.nodeType \in {"baseNodeName", "objectTypeDefinition",
                               "parentContainer", "objectAttributeDefinition"}
            \/ (e.nodeType = "objectAttributeGroup"
                /\ e.parentId # << "sitePreferences" >>)
       /\ asked' = e
       /\ handed' = << >>
       /\ response' = NoResponse
       /\ expansion' = "none"
       /\ fetches' = IF Expanding(e) THEN 1 ELSE 0
       /\ IF Requesting(e)
          THEN /\ tpc' = "setup"
               /\ request' = RequestOf(e)
               /\ children' = Pending
          ELSE IF Expanding(e)
          THEN /\ tpc' = "expand"
               /\ request' = NoRequest
               /\ children' = Pending
          ELSE /\ tpc' = "done"
               /\ request' = NoRequest
               /\ children' = Immediate(e)
  /\ UNCHANGED << settings, remembered, rvars, evars >>

\* 'await this.service.getCallSetup(...)' settles; the descriptor goes
\* straight to makeCall.
GetCallSetupSettles ==
  /\ tpc = "setup"
  /\ \E outcome \in SetupOutcomes :
       IF outcome = "threw"
       THEN /\ tpc' = "done"
            /\ children' = Rejects
            /\ UNCHANGED handed
       ELSE /\ tpc' = "call"
            /\ handed' = Append(handed, CallSetup(request.resourceName,
                                  request.callName, request.callData, outcome))
            /\ UNCHANGED children
  /\ UNCHANGED << settings, asked, request, response, fetches, expansion,
                  remembered, rvars, evars >>

\* 'await this.service.makeCall(_callSetup)' settles.
MakeCallSettles ==
  /\ tpc = "call"
  /\ \E result \in Responses(request.callName) :
       /\ response' = result
       /\ children' = ChildrenOf(request.strategy, asked, result)
  /\ tpc' = "done"
  /\ UNCHANGED << settings, asked, request, handed, fetches, expansion,
                  remembered, rvars, evars >>

\* 'await this.ocapiHelper.getExpandedAttribute(element)' settles.
ExpandedAttributeSettles ==
  /\ tpc = "expand"
  /\ \E outcome \in ExpansionOutcomes :
       /\ expansion' = outcome
       /\ children' =
            CASE outcome = "rejected" -> Rejects
              [] outcome = "nothing" -> AttributeDefinitionChildren(asked, asked.payload.doc)
              [] OTHER -> AttributeDefinitionChildren(asked,
                             ObjectAttributeDefinition(ExpandedAttribute(asked)))
  /\ tpc' = "done"
  /\ UNCHANGED << settings, asked, request, response, handed, fetches,
                  remembered, rvars, evars >>

\* refresh(): the host drops every node and asks for the root again.
Refresh ==
  /\ tpc = "done"
  /\ tpc' = "idle"
  /\ expansion' = "none"
  /\ remembered' = Expansion(asked, handed, response, expansion, children)
  /\ asked' = NoElement
  /\ request' = NoRequest
  /\ response' = NoResponse
  /\ children' = Pending
  /\ handed' = << >>
  /\ fetches' = 0
  /\ UNCHANGED << settings, rvars, evars >>

Next ==
  \/ GetChildren
  \/ GetCallSetupSettles
  \/ MakeCallSettles
  \/ ExpandedAttributeSettles
  \/ Refresh

Spec == Init /\ [][Next]_vars

SpecResolver == InitResolver /\ [][NextResolver]_vars

InitExport ==
  /\ presented = NothingPresented
  /\ wire \in WireDocuments
  /\ ownerType \in OwnerTypes
  /\ epc = "raw"
  /\ parsed = NoAttribute
  /\ xml = NoXML
  /\ document = NoDocument
  /\ TreeAtRest
  /\ ResolverAtRest

\* new ObjectAttributeDefinition(wire)
Parse ==
  /\ epc = "raw"
  /\ parsed' = ObjectAttributeDefinition(wire)
  /\ epc' = "parsed"
  /\ UNCHANGED << wire, ownerType, xml, document, presented, tvars, rvars >>

\* XMLHandler.getXMLFromNode on the attribute's node.
ExportXML ==
  /\ epc = "parsed"
  /\ xml = NoXML
  /\ xml' = getObjectAttributeXML(ownerType, parsed)
  /\ UNCHANGED << wire, ownerType, epc, parsed, document, presented, tvars, rvars >>

\* attribute.getDocument()
GetDocument ==
  /\ epc = "parsed"
  /\ document = NoDocument
  /\ document' = getDocument(parsed, << >>)
  /\ UNCHANGED << wire, ownerType, epc, parsed, xml, presented, tvars, rvars >>

\* The export command on a node of the tree.
GetXMLFromNode ==
  /\ epc \in {"raw", "parsed"}
  /\ \E metaNode \in ExportedNodes : presented' = getXMLFromNode(metaNode)
  /\ UNCHANGED << wire, ownerType, epc, parsed, xml, document, tvars, rvars >>

NextExport ==
  \/ Parse
  \/ ExportXML
  \/ GetDocument
  \/ GetXMLFromNode

SpecExport == InitExport /\ [][NextExport]_vars


(***************************************************************************)
(* Properties of the resolver.                                             *)
(***************************************************************************)
KnownResource(resourceName) == hasOwnProperty(apiConfig.resources, resourceName)

KnownCall(resourceName, callName) ==
  /\ KnownResource(resourceName)
  /\ hasOwnProperty(apiConfig.resources[resourceName].availableCalls, callName)

ParamsOf(resourceName, callName) ==
  apiConfig.resources[resourceName].availableCalls[callName].params

\* The declared parameters that callData lacks or holds with another type.
Violating(params, callData) ==
  {i \in 1..Len(params) :
     ~ (/\ hasOwnProperty(callData, params[i].id)
        /\ typeof(callData[params[i].id]) = params[i].type)}

NoPlaceholder(endpoint) == \A i \in 1..Len(endpoint) : endpoint[i].kind # "ph"

Entries(setupErrMsg) == {i \in 1..Len(setupErrMsg) : setupErrMsg[i] = MissingParamLine}

Finished(c) == inv[c].pc = "done"

\* C1: a finished invocation of a catalog call whose data bag holds every
\* declared parameter with the declared type, in a workspace with one
\* readable configuration, has returned a descriptor without setup error
\* and without a placeholder left in its endpoint.
C1_WellFormedCallResolves ==
  \A c \in Callers :
    ( /\ Finished(c)
      /\ KnownCall(inv[c].resourceName, inv[c].callName)
      /\ Violating(ParamsOf(inv[c].resourceName, inv[c].callName), inv[c].callData) = {}
      /\ workspace.open /\ Cardinality(workspace.files) = 1
      /\ inv[c].conn \notin {"notok", "failed"} )
    => /\ inv[c].outcome = "returned"
       /\ ~ inv[c].setupResult.setupError
       /\ NoPlaceholder(inv[c].setupResult.endpoint)

\* C3: every finished invocation has returned a descriptor (none has
\* thrown), and an unknown resource, an unknown call, a missing or mistyped
\* parameter or a connection that is not ok is reported by setupError with
\* a message that is not empty.
C3_FailuresAreData ==
  \A c \in Callers :
    Finished(c) =>
      /\ inv[c].outcome = "returned"
      /\ ( \/ ~ KnownCall(inv[c].resourceName, inv[c].callName)
           \/ Violating(ParamsOf(inv[c].resourceName, inv[c].callName), inv[c].callData) # {}
           \/ inv[c].conn \in {"notok", "failed"} )
         => /\ inv[c].setupResult.setupError
            /\ inv[c].setupResult.setupErrMsg # << >>

\* C4: a descriptor returned for an unknown resource, or for an unknown call
\* of a known resource, has setupError set.
C4_UnknownNamesAreSetupErrors ==
  \A c \in Callers :
    ( /\ Finished(c)
      /\ inv[c].outcome = "returned"
      /\ ~ KnownCall(inv[c].resourceName, inv[c].callName) )
    => inv[c].setupResult.setupError

\* C5: a finished invocation of a catalog call with m >= 1 violating
\* parameters has returned setupError with m entries in its message.
C5_AllViolationsCollected ==
  \A c \in Callers :
    ( /\ Finished(c)
      /\ KnownCall(inv[c].resourceName, inv[c].callName)
      /\ Violating(ParamsOf(inv[c].resourceName, inv[c].callName), inv[c].callData) # {} )
    => /\ inv[c].outcome = "returned"
       /\ inv[c].setupResult.setupError
       /\ Cardinality(Entries(inv[c].setupResult.setupErrMsg)) =
            Cardinality(Violating(ParamsOf(inv[c].resourceName, inv[c].callName),
                                  inv[c].callData))

\* C6: the search for the configuration is entered at most once in a
\* session, and a stored configuration that is ok is never replaced by
\* another value.
C6_DiscoveredOnceAndKept ==
  [][discoveries' <= 1 /\ (dwConfig.ok => dwConfig' = dwConfig)]_vars

BothSearchedTogether ==
  \A c \in Callers :
    /\ Finished(c) /\ inv[c].outcome = "returned" /\ inv[c].conn = "ok"
    /\ inv[c].searched /\ inv[c].overlapped

\* C7: two invocations that were in flight together, both of which searched
\* and returned, have resolved against the same base endpoint, and the
\* stored configuration is the one they used.
C7_ConcurrentFetchesConverge ==
  BothSearchedTogether =>
    /\ inv[1].setupResult.endpoint[1] = inv[2].setupResult.endpoint[1]
    /\ inv[1].setupResult.endpoint[1] = Lit(dwConfig.endpoint)

(***************************************************************************)
(* Properties of the tree materializer.                                    *)
(***************************************************************************)
ContainerExpanded ==
  tpc = "done" /\ asked.nodeType = "parentContainer" /\ asked.expandable

OneLeaf(name) ==
  /\ children.status = "list"
  /\ Len(children.nodes) = 1
  /\ children.nodes[1].name = name
  /\ ~ children.nodes[1].expandable

\* C2: no descriptor with setupError set has been handed to makeCall by
\* any strategy that issues a request.
C2_SetupErrorNeverHanded ==
  \A i \in 1..Len(handed) : ~ handed[i].setupError

\* C8: when the request of an expanded container (Attribute Definitions or
\* Attribute Groups) was rejected or answered with error = true, getChildren
\* has resolved to the single non-expandable node 'Unable to load...'.
C8_FailedRequestYieldsOneLeaf ==
  ( /\ ContainerExpanded
    /\ (response.kind = "rejected" \/ (response.kind = "body" /\ response.error)) )
  => OneLeaf("Unable to load...")

GroupsAnsweredEmpty ==
  /\ ContainerExpanded
  /\ asked.name = "Attribute Groups"
  /\ response.kind = "body"
  /\ ~ response.error
  /\ response.hasCount /\ response.count = 0
  /\ ~ response.hasData

\* C9: the Attribute Groups container expanded against a response without
\* error, with count = 0 and without a data array, has exactly one child,
\* non-expandable and named 'No attribute groups defined'.
C9_NoGroupsYieldsOneLeaf ==
  GroupsAnsweredEmpty => OneLeaf("No attribute groups defined")

C9_Witness ==
  GroupsAnsweredEmpty /\ OneLeaf("No attribute groups defined")

AttributeExpanded ==
  /\ tpc \in {"expand", "done"}
  /\ asked.nodeType = "objectAttributeDefinition"
  /\ asked.expandable

\* C10: one expansion of an attribute-definition node made from a
\* getAttributes row has fetched the expanded attribute exactly once when
\* the row's value type is an enumeration, and not at all otherwise.
C10_OneFetchForEnumerations ==
  AttributeExpanded =>
    fetches = IF asked.payload.doc.valueType.v \in {"enum_of_int", "enum_of_string"}
              THEN 1 ELSE 0

C10_Witness ==
  /\ AttributeExpanded
  /\ tpc = "done"
  /\ asked.name = "a2"
  /\ asked.payload.doc.valueType = Str("enum_of_int")
  /\ fetches = 1
  /\ children.status = "list"

C10_WitnessString ==
  /\ AttributeExpanded
  /\ tpc = "done"
  /\ asked.name = "a1"
  /\ asked.payload.doc.valueType = Str("string")
  /\ fetches = 0

NothingRequested ==
  handed = << >> /\ request = NoRequest /\ response = NoResponse /\ fetches = 0

\* C11: a getChildren call for a node that is not expandable, whatever its
\* type, has ended with an empty list, and has neither set up nor made a
\* call.
C11_LeavesExpandToNothing ==
  (tpc # "idle" /\ asked # NoElement /\ ~ asked.expandable)
  => /\ tpc = "done"
     /\ children = Resolves(<< >>)
     /\ NothingRequested

C11_Witness ==
  /\ tpc = "done"
  /\ asked.name = "Unable to load..."
  /\ ~ asked.expandable
  /\ children = Resolves(<< >>)
  /\ NothingRequested

\* The rows the spec assigns to a category.
IsCustomRow(obj) ==
  obj.object_type.v = "CustomObject" /\ "display_name" \in DOMAIN obj

IsSystemRow(obj) == ~ IsCustomRow(obj)

CategoryAnswered ==
  /\ tpc = "done"
  /\ asked.nodeType = "baseNodeName" /\ asked.expandable
  /\ asked.payload.baseNodeName \in {"systemObjectDefinitions", "customObjectDefinitions"}
  /\ response.kind = "body" /\ response.hasData

\* C12: the children of a category answered with rows are, one node of type
\* objectTypeDefinition per row, the custom rows (object_type 'CustomObject'
\* with a display name) under Custom Object Definitions and all the other
\* rows under System Object Definitions.
C12_RowsPartitioned ==
  CategoryAnswered =>
    /\ children.status = "list"
    /\ \A i \in 1..Len(children.nodes) :
         children.nodes[i].nodeType = "objectTypeDefinition"
    /\ Len(children.nodes) =
         IF asked.payload.baseNodeName = "customObjectDefinitions"
         THEN Len(SelectSeq(response.data, IsCustomRow))
         ELSE Len(SelectSeq(response.data, IsSystemRow))

ObjectTypeExpanded ==
  tpc = "done" /\ asked.nodeType = "objectTypeDefinition" /\ asked.expandable

\* C13: an expanded objectTypeDefinition node has made no call and has two
\* children of type parentContainer, 'Attribute Definitions' then 'Attribute
\* Groups', described by the definition's two counts; under Custom Object
\* Definitions 'Attribute Groups' is not expandable.
C13_TwoContainers ==
  ObjectTypeExpanded =>
    /\ NothingRequested
    /\ children.status = "list"
    /\ Len(children.nodes) = 2
    /\ \A i \in 1..2 : children.nodes[i].nodeType = "parentContainer"
    /\ children.nodes[1].name = "Attribute Definitions"
    /\ children.nodes[2].name = "Attribute Groups"
    /\ children.nodes[1].displayDescription =
         ToString(asked.payload.attributeDefinitionCount)
    /\ children.nodes[2].displayDescription =
         ToString(asked.payload.attributeGroupCount)
    /\ (asked.parentId = << "root", "customObjectDefinitions" >>
        => ~ children.nodes[2].expandable)

C13_Witness ==
  /\ ObjectTypeExpanded
  /\ asked.parentId = << "root", "customObjectDefinitions" >>
  /\ Len(children.nodes) = 2
  /\ ~ children.nodes[2].expandable
  /\ children.nodes[1].displayDescription = "1"

\* The labels of the enabled categories, in the order of the spec.
EnabledCategories ==
  (IF settings.systemobjects THEN << "System Object Definitions" >> ELSE << >>)
  \o (IF settings.customobjects THEN << "Custom Object Definitions" >> ELSE << >>)
  \o (IF settings.sitepreferences THEN << "Site Preferences" >> ELSE << >>)

\* C14: getChildren without an element has returned one expandable category
\* node per enabled toggle and none for a disabled one, in the order System
\* Object Definitions, Custom Object Definitions, Site Preferences.
C14_RootFollowsToggles ==
  (tpc = "done" /\ asked = NoElement) =>
    /\ children.status = "list"
    /\ Len(children.nodes) = Len(EnabledCategories)
    /\ \A i \in 1..Len(children.nodes) :
         /\ children.nodes[i].name = EnabledCategories[i]
         /\ children.nodes[i].expandable
         /\ children.nodes[i].nodeType = "baseNodeName"

C14_Witness ==
  /\ tpc = "done" /\ asked = NoElement
  /\ settings.systemobjects /\ ~ settings.customobjects /\ settings.sitepreferences
  /\ Len(children.nodes) = 2
  /\ children.nodes[2].name = "Site Preferences"

(***************************************************************************)
(* Properties of the export serializer and of getDocument.                 *)
(***************************************************************************)
Exported == epc = "parsed" /\ xml # NoXML

\* The attribute-definition element of the exported XML.
AttributeDefinitionElement == xml.children[1].children[1]

\* The children with a given name of the attribute-definition element.
Emitted(name) ==
  SelectSeq(AttributeDefinitionElement.children, LAMBDA e : e.name = name)

OneWithText(name, text) ==
  Len(Emitted(name)) = 1 /\ Emitted(name)[1].text = text

WireHas(key) == key \in DOMAIN wire

StringOfProduct == Exported /\ wire.value_type.v = "string" /\ ownerType = "Product"

\* C15: the export of a string attribute owned by Product is an
\* attribute-definition element with the attribute's id, with type,
\* mandatory-flag (the mandatory field), externally-managed-flag,
\* display-name and description, with min-length and localizable-flag, and
\* without a value-definitions block.
C15_StringOfProductExport ==
  StringOfProduct =>
    /\ AttributeDefinitionElement.name = "attribute-definition"
    /\ AttributeDefinitionElement.attr = "attribute-id=" \o wire.id.v
    /\ OneWithText("type", "string")
    /\ OneWithText("mandatory-flag",
                   IF WireHas("mandatory") /\ wire.mandatory.v THEN "true" ELSE "false")
    /\ Len(Emitted("externally-managed-flag")) = 1
    /\ Len(Emitted("display-name")) = 1
    /\ Len(Emitted("description")) = 1
    /\ Len(Emitted("min-length")) = 1
    /\ Len(Emitted("localizable-flag")) = 1
    /\ Len(Emitted("value-definitions")) = 0

C15_Witness ==
  /\ StringOfProduct
  /\ WireHas("mandatory") /\ wire.mandatory.v
  /\ OneWithText("mandatory-flag", "true")
  /\ Len(Emitted("min-length")) = 1

\* The entries of a wire list that have both a display value and a value.
Complete(valDefs) ==
  SelectSeq(valDefs, LAMBDA d : "display_value" \in DOMAIN d /\ "value" \in DOMAIN d)

IsValueDefinition(e, wireEntry) ==
  /\ e.name = "value-definition"
  /\ Len(e.children) = 2
  /\ e.children[1].name = "display"
  /\ e.children[1].text = wireEntry.display_value.default
  /\ e.children[2].name = "value"
  /\ e.children[2].text = wireEntry.value.v

\* C16: the export of an enumeration parsed from a wire document with value
\* definitions has one value-definitions block whose children are, in wire
\* order, the entries that have both a display value and a value; the
\* export of another value type has no such block.
C16_CompleteValueDefinitionsExported ==
  Exported =>
    IF wire.value_type.v \in {"enum_of_int", "enum_of_string"}
    THEN WireHas("value_definitions") =>
           /\ Len(Emitted("value-definitions")) = 1
           /\ LET block == Emitted("value-definitions")[1].children
                  complete == Complete(wire.value_definitions.items)
              IN /\ Len(block) = Len(complete)
                 /\ \A i \in 1..Len(block) : IsValueDefinition(block[i], complete[i])
    ELSE Len(Emitted("value-definitions")) = 0

ProductFlags ==
  {"localizable-flag", "site-specific-flag", "visible-flag", "order-required-flag",
   "externally-defined-flag"}

\* C17: Product gets the five flags, SitePreferences and every other type
\* get none of them; Product and SitePreferences get a default-value
\* element exactly when the wire document had a default value, every other
\* type gets none.
C17_OwnerBlockFollowsOwner ==
  Exported =>
    /\ \A f \in ProductFlags :
         Len(Emitted(f)) = IF ownerType = "Product" THEN 1 ELSE 0
    /\ Len(Emitted("default-value")) =
         IF ownerType \in {"Product", "SitePreferences"} /\ WireHas("default_value")
         THEN 1 ELSE 0

\* The wire name of a member of the document model.
WireName(member) ==
  IF member \in DOMAIN MEMBER_MAP THEN MEMBER_MAP[member]
  ELSE IF member = "includedFields" THEN "includeFields" ELSE member

DeclaredWireNames ==
  {WireName(ObjectAttributeDefinitionKeys[i]) :
     i \in 2..Len(ObjectAttributeDefinitionKeys)}

Projected(key) ==
  {document.json[i].value : i \in {j \in 1..Len(document.json) :
                                     document.json[j].key = key}}

\* C18: the document returned by getDocument() for a parsed wire document
\* holds every declared field of the wire document under its wire name and
\* with its wire value (for default_value: holds the field).
C18_ProjectionKeepsWireFields ==
  (epc = "parsed" /\ document # NoDocument) =>
    \A key \in DOMAIN wire \cap DeclaredWireNames :
      /\ Projected(key) # {}
      /\ key # "default_value" => Projected(key) = {wire[key]}

(***************************************************************************)
(* Expansions on either side of a refresh.                                 *)
(***************************************************************************)
\* What the host draws of a node: its label, its variant and its
\* expandable flag.
Drawn(n) ==
  IF n = Undefined THEN Undefined
  ELSE [name |-> n.name, nodeType |-> n.nodeType, expandable |-> n.expandable]

DrawnList(result) ==
  [status |-> result.status,
   nodes |-> [i \in 1..Len(result.nodes) |-> Drawn(result.nodes[i])]]

\* The node expanded last before the refresh is expanded again and its
\* getChildren call has settled.
ExpandedAgain ==
  /\ tpc = "done"
  /\ remembered.children # Pending
  /\ remembered.asked = asked

\* The awaits of both calls settled alike.
SettledAlike ==
  /\ remembered.handed = handed
  /\ remembered.response = response
  /\ remembered.expansion = expansion

RowLabels(callResult) ==
  UNION {{obj[k].v : k \in DOMAIN obj \cap {"id", "object_type"}}
           \cup {obj[k].default : k \in DOMAIN obj \cap {"display_name"}} :
         obj \in {callResult.data[i] : i \in 1..Len(callResult.data)}}

\* The children that stand for a row of a response.
RowChildren(result) ==
  {n \in {result.nodes[i] : i \in 1..Len(result.nodes)} \ {Undefined} :
     n.nodeType \in {"objectTypeDefinition", "objectAttributeDefinition",
                     "objectAttributeGroup"}}

\* C20: a baseCategory or parentContainer node expanded again after a refresh
\* makes its getCallSetup/makeCall round trip again, and every child that
\* stands for a row stands for a row of the response of this round trip.
C20_ExpandedAgainRequestsAgain ==
  (ExpandedAgain /\ Requesting(asked)) =>
    /\ children # Rejects =>
         /\ Len(handed) = 1
         /\ handed[1].callName = RequestOf(asked).callName
         /\ response # NoResponse
    /\ \A n \in RowChildren(children) : n.name \in RowLabels(response)

C20_Witness ==
  /\ ExpandedAgain /\ Requesting(asked)
  /\ RowChildren(remembered.children) # {}
  /\ Len(handed) = 1
  /\ response.kind = "body" /\ ~ response.hasData
  /\ RowChildren(children) = {}
  /\ Len(children.nodes) = 1

(***************************************************************************)
(* Further properties of the tree materializer.                            *)
(***************************************************************************)
\* The elements of a settled list, undefined ones included.
Returned == {children.nodes[i] : i \in 1..Len(children.nodes)}

\* The document whose members were mapped to the children.
MappedDocument ==
  IF expansion = "document"
  THEN ObjectAttributeDefinition(ExpandedAttribute(asked))
  ELSE asked.payload.doc

\* A leaf of a primitive or localized field of the mapped document.
IsFieldLeaf(n) ==
  /\ n # Undefined
  /\ ~ n.expandable
  /\ \E i \in 1..Len(ObjectAttributeDefinitionKeys) :
       LET key == ObjectAttributeDefinitionKeys[i]
           value == MappedDocument[key]
       IN \/ value.t \in {"string", "number", "boolean"}
             /\ n.name = key \o " : " \o ToStr(value)
          \/ value.t = "object" /\ value.kind = "localized"
             /\ n.name = key \o " : " \o value.default

IsDefaultValueNode(n) ==
  /\ n # Undefined
  /\ n.expandable
  /\ n.nodeType = "objectAttributeValueDefinition"

IsValueDefinitionsNode(n) ==
  /\ n # Undefined
  /\ n.expandable
  /\ n.name = "Value Definitions"

\* C21: the children of an expanded objectAttributeDefinition node are
\* leaves of primitive and localized fields, one collapsible node exactly
\* when the document has a default value, and one collapsible 'Value
\* Definitions' node exactly when the type is an enumeration with at least
\* one value definition; the list holds nothing else.
C21_AttributeChildren ==
  (AttributeExpanded /\ tpc = "done" /\ children.status = "list") =>
    /\ \A n \in Returned :
         IsFieldLeaf(n) \/ IsDefaultValueNode(n) \/ IsValueDefinitionsNode(n)
    /\ Cardinality({n \in Returned : IsDefaultValueNode(n)}) =
         IF MappedDocument.defaultValue.id # Undefined THEN 1 ELSE 0
    /\ Cardinality({n \in Returned : IsValueDefinitionsNode(n)}) =
         IF IsEnumType(MappedDocument)
            /\ Len(MappedDocument.valueDefinitions.items) > 0
         THEN 1 ELSE 0

GroupExpanded ==
  /\ tpc = "done"
  /\ asked.nodeType = "objectAttributeGroup"
  /\ asked.expandable
  /\ asked.parentId # << "sitePreferences" >>

\* C22: an expanded objectAttributeGroup node outside site preferences,
\* whatever its member count, has made no call and has seven children: an
\* 'Attributes' node with the member count and the member ids, then the six
\* non-expandable leaves id, description, display name, internal, position
\* and link.
C22_GroupChildren ==
  GroupExpanded =>
    LET group == ObjectAttributeGroup(asked.payload.raw)
    IN /\ NothingRequested
       /\ children.status = "list"
       /\ Len(children.nodes) = 7
       /\ children.nodes[1].name = "Attributes"
       /\ children.nodes[1].displayDescription = ToStr(group.attributeDefinitionsCount)
       /\ children.nodes[1].payload.stringList =
            [i \in 1..Len(group.attributeDefinitions) |->
               group.attributeDefinitions[i].id.v]
       /\ [i \in 1..6 |-> children.nodes[i + 1].name] =
            << "id", "description", "display name", "internal", "position", "link" >>
       /\ \A i \in 2..7 : ~ children.nodes[i].expandable

(***************************************************************************)
(* Properties of the endpoint catalog.                                     *)
(***************************************************************************)
\* The ids of the '{token}' placeholders of a path.
Placeholders(path) == {path[i].s : i \in {j \in 1..Len(path) : path[j].kind = "ph"}}

\* The ids of the params whose use is PATH_PARAMETER.
PathParams(params) ==
  {params[i].id : i \in {j \in 1..Len(params) : params[j].use = "PATH_PARAMETER"}}

CatalogEntries ==
  {<< r, call >> : r \in DOMAIN apiConfig.resources,
                   call \in DOMAIN apiConfig.resources.systemObjectDefinitions.availableCalls}

PathOf(resourceName, callName) ==
  apiConfig.resources[resourceName].availableCalls[callName].path

\* The entries the callers are resolving.
EntriesInUse ==
  {<< inv[c].resourceName, inv[c].callName >> :
     c \in {d \in Callers : KnownCall(inv[d].resourceName, inv[d].callName)}}

\* C23: in every call entry of the catalog, the entries being resolved
\* among them, the ids of the placeholders of the path are the ids of the
\* params whose use is PATH_PARAMETER.
C23_PlaceholdersArePathParams ==
  \A e \in CatalogEntries \cup EntriesInUse :
    Placeholders(PathOf(e[1], e[2])) = PathParams(ParamsOf(e[1], e[2]))

C23_Witness ==
  \E c \in Callers :
    /\ inv[c].pc # "idle"
    /\ KnownCall(inv[c].resourceName, inv[c].callName)
    /\ Placeholders(PathOf(inv[c].resourceName, inv[c].callName)) = {"objectType"}
    /\ PathParams(ParamsOf(inv[c].resourceName, inv[c].callName)) = {"objectType"}
    /\ Len(ParamsOf(inv[c].resourceName, inv[c].callName)) = 2

(***************************************************************************)
(* Further properties of the resolver.                                     *)
(***************************************************************************)
\* The last n segments of an endpoint.
Ending(endpoint, n) ==
  IF Len(endpoint) < n THEN << >>
  ELSE SubSeq(endpoint, Len(endpoint) - n + 1, Len(endpoint))

\* C24: a finished invocation of getAll on systemObjectDefinitions with the
\* data bag { select: '(**)' }, in a workspace with one readable
\* configuration, has returned an endpoint that ends in
\* 'system_object_definitions?select=%28%2A%2A%29'.
C24_SelectIsPercentEncoded ==
  \A c \in Callers :
    ( /\ Finished(c)
      /\ inv[c].resourceName = "systemObjectDefinitions"
      /\ inv[c].callName = "getAll"
      /\ inv[c].callData = [select |-> Str("(**)")]
      /\ workspace.open /\ Cardinality(workspace.files) = 1
      /\ inv[c].conn \notin {"notok", "failed"} )
    => /\ inv[c].outcome = "returned"
       /\ Ending(inv[c].setupResult.endpoint, 5) =
            << Lit("system_object_definitions"), Lit("?"), Lit("select"),
               Lit("="), Lit("%28%2A%2A%29") >>

(***************************************************************************)
(* Further properties of the export serializer.                            *)
(***************************************************************************)
Exportable(metaNode) ==
  metaNode.nodeType \in {"objectAttributeDefinition", "objectAttributeGroup"}

\* C25: getXMLFromNode on a node that carries neither an attribute
\* definition nor an attribute group has ended in a failure, and has not
\* presented a document.
C25_UnexportableNodeFails ==
  (presented # NothingPresented /\ ~ Exportable(presented.node)) =>
    presented.status = "failure"

(***************************************************************************)
(* The requests of the tree materializer and the endpoint catalog.         *)
(***************************************************************************)
\* The ids of the parameters a catalog entry declares.
Declared(resourceName, callName) ==
  LET params == ParamsOf(resourceName, callName)
  IN {params[i].id : i \in 1..Len(params)}

ContainerRequested ==
  /\ tpc \in {"setup", "call", "done"}
  /\ asked.nodeType = "parentContainer"
  /\ request # NoRequest
  /\ KnownCall(request.resourceName, request.callName)

\* C26: every key of the data bag set up for the expansion of an 'Attribute
\* Definitions' or 'Attribute Groups' container (count, expand among them)
\* is declared by the catalog entry of the call, so that it reaches the
\* resolved endpoint.
C26_BagKeysAreDeclared ==
  ContainerRequested =>
    DOMAIN request.callData \subseteq Declared(request.resourceName, request.callName)

\* C27: every (resource, call) pair set up by the expansion of a node is an
\* entry of the endpoint catalog.
C27_RequestedPairsAreInCatalog ==
  (tpc \in {"setup", "call", "done"} /\ request # NoRequest) =>
    KnownCall(request.resourceName, request.callName)

\* The attribute-definition and attribute-group nodes of a settled list.
DocumentChildren ==
  {n \in Returned \ {Undefined} :
     n.nodeType \in {"objectAttributeDefinition", "objectAttributeGroup"}}

\* C28: every attribute-definition node and attribute-group node made from
\* the rows of a list call has, as the last segment of its parentId, the
\* object type the call was made for: the type-id getXMLFromNode writes for
\* the node is the owning object type.
C28_LineageEndsInObjectType ==
  (tpc = "done" /\ request # NoRequest /\ children.status = "list") =>
    \A n \in DocumentChildren :
      /\ Last(n.parentId) = request.callData.objectType.v
      /\ getXMLFromNode(n).content.children[1].attr =
           "type-id=" \o request.callData.objectType.v

\* C29: a getChildren call that has settled without rejecting, for any node
\* and any response, has resolved to a list, and every element of the list
\* is a node.
C29_AlwaysAListOfNodes ==
  (tpc = "done" /\ children.status # "rejected") =>
    /\ children.status = "list"
    /\ Undefined \notin Returned

\* C30: the 'Attribute Definitions' child of an expanded objectTypeDefinition
\* node is expandable under Custom Object Definitions as it is under System
\* Object Definitions; the 'Attribute Groups' child is not expandable under
\* Custom Object Definitions.
C30_CustomAttributeDefinitionsExpandable ==
  ObjectTypeExpanded =>
    /\ children.nodes[1].name = "Attribute Definitions"
    /\ children.nodes[1].expandable
    /\ children.nodes[2].expandable = ~ UnderCustomObjects(asked.parentId)

====
